---- MODULE Spec2Model ----
(***************************************************************************)
(* A model of the cxgui repository's supervisory tools:                    *)
(*   - vhsgui.pyw  : the workflow GUI (decode, then export)   -> Spec      *)
(*   - cxcheck.pyw : the signal monitor (one worker per device)            *)
(*   - ConfigManager.load_config as a function of the file on disk         *)
(* Texts (the contents of line edits, paths, file names) are sequences of  *)
(* tokens: " " is white space, "/" the path separator, "." a dot, and any  *)
(* other token a run of ordinary characters.                               *)
(***************************************************************************)
EXTENDS Integers, Sequences, FiniteSets, TLC

\* ------------------------------------------------------------------ bounds
\* Stop clicks handled within one run.
MaxStops == 1
\* Runs started in one session.
MaxRuns == 1

\* ------------------------------------------------------------ text helpers
SP == " "
SEP == "/"
DOT == "."

RECURSIVE LStrip(_)
\* str.lstrip(): leading white space removed.
LStrip(t) == IF t = <<>> THEN t
             ELSE IF Head(t) = SP THEN LStrip(Tail(t)) ELSE t

RECURSIVE RStrip(_)
\* str.rstrip(): trailing white space removed.
RStrip(t) == IF t = <<>> THEN t
             ELSE IF t[Len(t)] = SP THEN RStrip(SubSeq(t, 1, Len(t) - 1)) ELSE t

\* str.strip()
Strip(t) == RStrip(LStrip(t))

\* The greatest index of token c in t, 0 when absent (str.rfind + 1).
RFind(t, c) == LET I == {i \in 1..Len(t) : t[i] = c}
               IN  IF I = {} THEN 0 ELSE CHOOSE i \in I : \A j \in I : j <= i

RECURSIVE RStripSep(_)
RStripSep(t) == IF t = <<>> THEN t
                ELSE IF t[Len(t)] = SEP THEN RStripSep(SubSeq(t, 1, Len(t) - 1)) ELSE t

\* os.path.dirname
Dirname(p) == LET head == SubSeq(p, 1, RFind(p, SEP))
              IN  IF head # <<>> /\ \E i \in 1..Len(head) : head[i] # SEP
                  THEN RStripSep(head) ELSE head

\* os.path.basename
Basename(p) == SubSeq(p, RFind(p, SEP) + 1, Len(p))

\* os.path.splitext(p)[0]: the last dot splits, unless it only leads the name.
SplitextRoot(p) ==
    LET sepIndex == RFind(p, SEP)
        dotIndex == RFind(p, DOT)
    IN  IF dotIndex > sepIndex
           /\ \E i \in (sepIndex + 1)..(dotIndex - 1) : p[i] # DOT
        THEN SubSeq(p, 1, dotIndex - 1)
        ELSE p

\* os.path.join(a, b)
Join(a, b) == IF b # <<>> /\ Head(b) = SEP THEN b
              ELSE IF a = <<>> \/ a[Len(a)] = SEP THEN a \o b
              ELSE a \o <<SEP>> \o b

\* f"{base}.tbc" and f"{base}.tbcexported.mkv"
TbcName(base) == base \o <<DOT, "tbc">>
MkvName(base) == base \o <<DOT, "tbcexported", DOT, "mkv">>

\* ------------------------------------------------------------- JSON values
JStr(t) == [t |-> "str", v |-> t]
JInt(n) == [t |-> "int", v |-> n]
JNull == [t |-> "null"]
JList(s) == [t |-> "list", v |-> s]
JObj(f) == [t |-> "obj", v |-> f]

\* ---------------------------------------------------- ConfigManager (vhsgui)
DefaultWidth == 900
DefaultHeight == 750

DefaultKeys == {"decode_path", "tbc_export_path", "last_input_file",
                "window_width", "window_height"}

\* load_config: the defaults dictionary.
defaults == [k \in DefaultKeys |->
               CASE k = "window_width" -> JInt(DefaultWidth)
                 [] k = "window_height" -> JInt(DefaultHeight)
                 [] OTHER -> JStr(<<>>)]

\* The states of the configuration file: absent, unreadable (open fails with
\* an IOError), not parseable as JSON, or a parsed JSON value.
NoFile == [kind |-> "absent"]
Unreadable == [kind |-> "unreadable"]
BadJson == [kind |-> "invalid"]
\* Bytes the text codec cannot decode: f.read() raises UnicodeDecodeError.
Undecodable == [kind |-> "undecodable"]
JsonFile(j) == [kind |-> "json", data |-> j]

\* `key in data` for a parsed JSON value; "TypeError" when data is not iterable.
KeyIn(key, data) ==
    CASE data.t = "obj" -> key \in DOMAIN data.v
      [] data.t = "list" -> \E i \in 1..Len(data.v) : data.v[i] = JStr(<<key>>)
      [] data.t = "str" -> \E i \in 1..Len(data.v) : data.v[i] = key
      [] OTHER -> "TypeError"

\* The merge with the defaults taking precedence over the file.
MergeDefaults_defaults_first(obj) ==
    [k \in (DOMAIN obj) \cup DefaultKeys |->
        IF k \in DefaultKeys THEN defaults[k] ELSE obj[k]]

\* The merge loop of load_config on a JSON object: every default key that is
\* missing is added with its default value; keys on disk are kept as they are.
MergeDefaults(obj) ==
    [k \in (DOMAIN obj) \cup DefaultKeys |->
        IF k \in DOMAIN obj THEN obj[k] ELSE defaults[k]]

\* ConfigManager.load_config: [ok |-> TRUE, value |-> <the returned value>],
\* or [ok |-> FALSE, error |-> <the exception that escapes>].
load_config(file) ==
    CASE file.kind = "absent" -> [ok |-> TRUE, value |-> JObj(defaults)]
      [] file.kind \in {"unreadable", "invalid"} -> [ok |-> TRUE, value |-> JObj(defaults)]
      [] file.kind = "undecodable" -> [ok |-> FALSE, error |-> "UnicodeDecodeError"]
      [] OTHER ->
          LET data == file.data IN
          CASE data.t = "obj" -> [ok |-> TRUE, value |-> JObj(MergeDefaults(data.v))]
            [] data.t \in {"list", "str"} ->
                 IF \A k \in DefaultKeys : KeyIn(k, data)
                 THEN [ok |-> TRUE, value |-> data]
                 ELSE [ok |-> FALSE, error |-> "TypeError"]
            [] OTHER -> [ok |-> FALSE, error |-> "TypeError"]

\* A save that writes the defaults in place of the record it is given.
save_config_defaults(config_data, file, writeOk) ==
    IF writeOk THEN JsonFile(JObj(defaults)) ELSE file

\* save_config: the file after json.dump(config_data), or the file as it was
\* when the write fails (the IOError is swallowed).
save_config(config_data, file, writeOk) ==
    IF writeOk THEN JsonFile(JObj(config_data)) ELSE file

\* --------------------------------------------------- the workflow GUI state
VARIABLES
    path_decode,    \* text of the decode.exe line edit
    path_export,    \* text of the export.exe line edit
    input_file,     \* text of the input file line edit
    output_name,    \* text of the output base name line edit
    config,         \* self.config, a dictionary
    cfgFile,        \* vhsgui.json on disk
    fs,             \* the paths that exist on the file system
    btn_run,        \* START Workflow is enabled
    btn_stop,       \* STOP is enabled
    log,            \* the process log widget, a sequence of messages
    current_step,   \* self.current_step: "None", "decode" or "export"
    work_dir,       \* self.work_dir
    qstate,         \* QProcess.state(): "NotRunning", "Starting", "Running"
    launch,         \* program, arguments and working directory of the last start()
    proc,           \* the operating system's process: "none", "alive", "dead"
    exitInfo,       \* exit status and code of the dead process
    dialog,         \* the message box the last handler showed, "none" if none
    app,            \* "open", or "exited" once the window was closed
    run             \* what was observed of the current run

wfVars == <<path_decode, path_export, input_file, output_name, config, cfgFile,
            fs, btn_run, btn_stop, log, current_step, work_dir, qstate,
            launch, proc, exitInfo, dialog, app, run>>

\* What the user can type or pick.
DecodePath == <<"decode">>
ExportPath == <<"export">>
InputPath == <<"cap", SEP, "a", DOT, "u8">>
DecodeTexts == {<<>>, DecodePath}
ExportTexts == {<<>>, ExportPath}
InputTexts == {<<>>, InputPath}
OutputTexts == {<<>>, <<SP>>, <<"a">>, <<SP, "b">>}
WinSizes == {<<DefaultWidth, DefaultHeight>>, <<1024, 768>>}

\* An intermediate artifact an earlier session left in the capture's folder.
LeftoverTbc == <<"cap", SEP, "b", DOT, "tbc">>

\* The files a session finds: the executables, the capture and the leftover.
StaticFiles == {DecodePath, ExportPath, InputPath, LeftoverTbc}

\* os.path.exists
Exists(p) == p \in fs

NormalExit == "NormalExit"
CrashExit == "CrashExit"
\* Exit status and code pairs a stage can end with.
ExitOutcomes == {[status |-> NormalExit, code |-> 0],
                 [status |-> NormalExit, code |-> 1],
                 [status |-> CrashExit, code |-> 9]}
\* QProcess.kill(): the process dies of the kill signal.
Killed == [status |-> CrashExit, code |-> 9]

NoLaunch == [stage |-> "None", exe |-> <<>>, args |-> <<>>, cwd |-> <<>>]
NoExit == [status |-> "None", code |-> 0]
\* What was observed of a run, for the properties below:
\*   n            the runs accepted so far
\*   base         the output base name start_process passed to decode
\*   decode       "none", or how the decode process was seen to end: "ok", "bad"
\*   export       "none", "started" (start() was called for export), "ok", "bad"
\*   stopped      "None", or the stage that was active at the first STOP click
\*   stops        the STOP clicks handled
\*   launchFailed a start() of this run failed
\*   success      the Success box was shown
\*   mkv          <work_dir>/<base>.tbcexported.mkv existed when export was
\*                seen to end
NoRun == [n |-> 0, base |-> <<>>, decode |-> "none", export |-> "none",
          stopped |-> "None", stops |-> 0, launchFailed |-> FALSE,
          success |-> FALSE, mkv |-> FALSE]

\* The configuration files a session can start from.
SavedConfig == [k \in DefaultKeys |->
                  CASE k = "decode_path" -> JStr(DecodePath)
                    [] k = "tbc_export_path" -> JStr(ExportPath)
                    [] k = "last_input_file" -> JStr(InputPath)
                    [] k = "window_width" -> JInt(1024)
                    [] k = "window_height" -> JInt(768)]
InitCfgFiles == {NoFile, JsonFile(JObj(SavedConfig))}

\* update_output_name
update_output_name(path) == SplitextRoot(Basename(path))

\* VHSGui.__init__, init_ui and auto_locate_executables.
Init ==
    /\ cfgFile \in InitCfgFiles
    /\ config = load_config(cfgFile).value.v
    /\ fs = StaticFiles
    /\ \E found \in {<<>>, DecodePath} :
          path_decode = IF config["decode_path"].v # <<>>
                        THEN config["decode_path"].v ELSE found
    /\ \E found \in {<<>>, ExportPath} :
          path_export = IF config["tbc_export_path"].v # <<>>
                        THEN config["tbc_export_path"].v ELSE found
    /\ LET last == config["last_input_file"].v IN
       IF last # <<>> /\ last \in fs
       THEN input_file = last /\ output_name = update_output_name(last)
       ELSE input_file = <<>> /\ output_name = <<>>
    /\ btn_run = TRUE
    /\ btn_stop = FALSE
    /\ log = <<>>
    /\ current_step = "None"
    /\ work_dir = <<>>
    /\ qstate = "NotRunning"
    /\ launch = NoLaunch
    /\ proc = "none"
    /\ exitInfo = NoExit
    /\ dialog = "none"
    /\ app = "open"
    /\ run = NoRun

\* ------------------------------------------------------ the user's edits
\* No message box is shown.
Quiet == dialog' = "none"

\* path_decode and input_file are read by start_process only, which runs only
\* while START is enabled: their edits are followed while it is.
EditDecode(t) ==
    /\ app = "open" /\ btn_run /\ t # path_decode
    /\ path_decode' = t /\ Quiet
    /\ UNCHANGED <<path_export, input_file, output_name, config, cfgFile, fs,
                   btn_run, btn_stop, log, current_step, work_dir, qstate, launch,
                   proc, exitInfo, app, run>>

EditExport(t) ==
    /\ app = "open" /\ t # path_export
    /\ path_export' = t /\ Quiet
    /\ UNCHANGED <<path_decode, input_file, output_name, config, cfgFile, fs,
                   btn_run, btn_stop, log, current_step, work_dir, qstate, launch,
                   proc, exitInfo, app, run>>

EditInput(t) ==
    /\ app = "open" /\ btn_run /\ t # input_file
    /\ input_file' = t /\ Quiet
    /\ UNCHANGED <<path_decode, path_export, output_name, config, cfgFile, fs,
                   btn_run, btn_stop, log, current_step, work_dir, qstate, launch,
                   proc, exitInfo, app, run>>

EditOutput(t) ==
    /\ app = "open" /\ t # output_name
    /\ output_name' = t /\ Quiet
    /\ UNCHANGED <<path_decode, path_export, input_file, config, cfgFile, fs,
                   btn_run, btn_stop, log, current_step, work_dir, qstate, launch,
                   proc, exitInfo, app, run>>

\* browse_input_file with a file picked in the dialog.
browse_input_file(fname) ==
    /\ app = "open" /\ fname # <<>>
    /\ <<input_file, output_name>> # <<fname, update_output_name(fname)>>
    /\ input_file' = fname
    /\ output_name' = update_output_name(fname)
    /\ Quiet
    /\ UNCHANGED <<path_decode, path_export, config, cfgFile, fs,
                   btn_run, btn_stop, log, current_step, work_dir, qstate, launch,
                   proc, exitInfo, app, run>>

\* ------------------------------------------------------------- QProcess
\* QProcess.start(program, arguments): refused while a process is starting or
\* running; an empty program fails at once; otherwise the state is Starting.
QStart(q, stage, exe, args, cwd) ==
    IF q # "NotRunning"
    THEN UNCHANGED <<qstate, launch, proc, exitInfo>>
    ELSE /\ launch' = [stage |-> stage, exe |-> exe, args |-> args, cwd |-> cwd]
         /\ proc' = "none"
         /\ exitInfo' = NoExit
         /\ qstate' = IF exe = <<>> THEN "NotRunning" ELSE "Starting"

\* The operating system spawned the program: started() is emitted.
ProcStarted ==
    /\ app = "open" /\ qstate = "Starting" /\ Exists(launch.exe)
    /\ qstate' = "Running" /\ proc' = "alive" /\ Quiet
    /\ UNCHANGED <<path_decode, path_export, input_file, output_name, config,
                   cfgFile, fs, btn_run, btn_stop, log, current_step,
                   work_dir, launch, exitInfo, app, run>>

\* The program is missing or the operating system refused to spawn it:
\* errorOccurred(FailedToStart) is emitted, to which no slot is connected;
\* finished() is not emitted.
ProcFailedToStart ==
    /\ app = "open" /\ qstate = "Starting"
    /\ qstate' = "NotRunning" /\ Quiet
    /\ run' = [run EXCEPT !.launchFailed = TRUE]
    /\ UNCHANGED <<path_decode, path_export, input_file, output_name, config,
                   cfgFile, fs, btn_run, btn_stop, log, current_step,
                   work_dir, launch, proc, exitInfo, app>>

\* The artifact the running stage writes: decode writes <output_arg>.tbc,
\* export writes its second argument in its working directory.
Artifact == IF launch.stage = "decode" THEN TbcName(launch.args[2])
            ELSE Join(launch.cwd, launch.args[2])

ProcWrites ==
    /\ app = "open" /\ proc = "alive" /\ Artifact \notin fs
    /\ fs' = fs \cup {Artifact} /\ Quiet
    /\ UNCHANGED <<path_decode, path_export, input_file, output_name, config,
                   cfgFile, btn_run, btn_stop, log, current_step, work_dir,
                   qstate, launch, proc, exitInfo, app, run>>

\* The process ends by itself.
ProcExit(o) ==
    /\ app = "open" /\ proc = "alive"
    /\ proc' = "dead" /\ exitInfo' = o /\ Quiet
    /\ UNCHANGED <<path_decode, path_export, input_file, output_name, config,
                   cfgFile, fs, btn_run, btn_stop, log, current_step,
                   work_dir, qstate, launch, app, run>>

\* ------------------------------------------------------- VHSGui handlers
\* A start_process without the check of the output name.
PreconditionError_without_name(decode_exe, export_exe, input_full_path, output_base_name) ==
    IF ~Exists(decode_exe) THEN "decode_not_found"
    ELSE IF ~Exists(export_exe) THEN "export_not_found"
    ELSE IF ~Exists(input_full_path) THEN "input_not_found"
    ELSE "none"

\* start_process, lines 285-296: the message box of the first check that
\* fails, "none" when all pass.
PreconditionError(decode_exe, export_exe, input_full_path, output_base_name) ==
    IF ~Exists(decode_exe) THEN "decode_not_found"
    ELSE IF ~Exists(export_exe) THEN "export_not_found"
    ELSE IF ~Exists(input_full_path) THEN "input_not_found"
    ELSE IF output_base_name = <<>> THEN "no_output_name"
    ELSE "none"

start_process ==
    /\ app = "open" /\ btn_run
    /\ LET decode_exe == Strip(path_decode)
           export_exe == Strip(path_export)
           input_full_path == Strip(input_file)
           output_base_name == Strip(output_name)
           err == PreconditionError(decode_exe, export_exe, input_full_path,
                                    output_base_name)
           wd == Dirname(input_full_path)
       IN  IF err # "none"
           THEN /\ dialog' = err
                /\ UNCHANGED <<config, cfgFile, work_dir, btn_run, btn_stop, log,
                               current_step, qstate, launch, proc, exitInfo, run>>
           ELSE /\ run.n < MaxRuns
                /\ config' = [config EXCEPT !["decode_path"] = JStr(decode_exe),
                                            !["tbc_export_path"] = JStr(export_exe),
                                            !["last_input_file"] = JStr(input_full_path)]
                /\ \E writeOk \in BOOLEAN :
                       cfgFile' = save_config(config', cfgFile, writeOk)
                /\ work_dir' = wd
                /\ btn_run' = FALSE
                /\ btn_stop' = TRUE
                /\ log' = <<"START_DECODE">>
                /\ current_step' = "decode"
                /\ QStart(qstate, "decode", decode_exe,
                          <<Basename(input_full_path), Join(wd, output_base_name)>>, wd)
                /\ run' = [NoRun EXCEPT !.n = run.n + 1, !.base = output_base_name]
                /\ Quiet
    /\ UNCHANGED <<path_decode, path_export, input_file, output_name, fs, app>>

\* kill_process: the STOP button.
kill_process ==
    /\ app = "open" /\ btn_stop
    /\ run.stops < MaxStops
    /\ Quiet
    /\ run' = [run EXCEPT !.stops = @ + 1,
                          !.stopped = IF @ = "None" /\ qstate # "NotRunning"
                                      THEN launch.stage ELSE @]
    /\ IF qstate = "Running"
       THEN /\ proc' = IF proc = "alive" THEN "dead" ELSE proc
            /\ exitInfo' = IF proc = "alive" THEN Killed ELSE exitInfo
            /\ log' = Append(log, "STOPPED")
       ELSE UNCHANGED <<proc, exitInfo, log>>
    /\ UNCHANGED <<path_decode, path_export, input_file, output_name, config,
                   cfgFile, fs, btn_run, btn_stop, current_step, work_dir,
                   qstate, launch, app>>

\* handle_output: the process's output is appended to the log. "OUT" stands
\* for a stretch of output text, however many chunks it arrived in.
handle_output ==
    /\ app = "open" /\ qstate = "Running"
    /\ log # <<>> /\ log[Len(log)] # "OUT"
    /\ log' = Append(log, "OUT")
    /\ Quiet
    /\ UNCHANGED <<path_decode, path_export, input_file, output_name, config,
                   cfgFile, fs, btn_run, btn_stop, current_step, work_dir,
                   qstate, launch, proc, exitInfo, app, run>>

\* A process_finished that does not look at the exit code.
ExitKind_ignoring_code(status, code) ==
    IF status = CrashExit THEN "crash" ELSE "ok"

\* process_finished, lines 347-354: how the exit is classified.
ExitKind(status, code) ==
    IF status = CrashExit THEN "crash"
    ELSE IF code # 0 THEN "failed"
    ELSE "ok"

\* start_export, entered from process_finished with the log as it is then.
start_export(log0, run0) ==
    LET output_base_name == Strip(output_name)
        export_exe == Strip(path_export)
        tbc_filename == TbcName(output_base_name)
        export_filename == MkvName(output_base_name)
        full_tbc_path == Join(work_dir, tbc_filename)
    IN  /\ current_step' = "export"
        /\ IF ~Exists(full_tbc_path)
           THEN /\ log' = Append(log0, "TBC_MISSING")
                /\ btn_run' = TRUE
                /\ btn_stop' = FALSE
                /\ qstate' = "NotRunning"
                /\ run' = run0
                /\ UNCHANGED <<launch, proc, exitInfo>>
           ELSE /\ btn_stop' = TRUE
                /\ btn_run' = btn_run
                /\ log' = Append(log0, "EXPORT_CMD")
                /\ QStart("NotRunning", "export", export_exe,
                          <<tbc_filename, export_filename>>, work_dir)
                /\ run' = [run0 EXCEPT !.export = "started",
                                        !.launchFailed = (export_exe = <<>>)]

\* process_finished: the slot of QProcess.finished. The process that ended is
\* the one start() launched last (launch.stage); the handler goes by
\* current_step.
process_finished ==
    /\ app = "open" /\ qstate = "Running" /\ proc = "dead"
    /\ LET seen == IF exitInfo.status = NormalExit /\ exitInfo.code = 0
                   THEN "ok" ELSE "bad"
           ran == IF launch.stage = "decode"
                  THEN [run EXCEPT !.decode = seen]
                  ELSE [run EXCEPT !.export = seen,
                                   !.mkv = Exists(Join(work_dir, MkvName(run.base)))]
           kind == ExitKind(exitInfo.status, exitInfo.code)
       IN  CASE kind = "crash" ->
                 /\ btn_stop' = FALSE /\ btn_run' = TRUE
                 /\ qstate' = "NotRunning" /\ run' = ran
                 /\ Quiet
                 /\ UNCHANGED <<log, current_step, launch, proc, exitInfo>>
             [] kind = "failed" ->
                 /\ btn_stop' = FALSE /\ btn_run' = TRUE
                 /\ log' = Append(log, "FAILED")
                 /\ qstate' = "NotRunning" /\ run' = ran
                 /\ Quiet
                 /\ UNCHANGED <<current_step, launch, proc, exitInfo>>
             [] kind = "ok" /\ current_step = "decode" ->
                 /\ start_export(Append(log, "DECODE_COMPLETE"), ran)
                 /\ Quiet
             [] kind = "ok" /\ current_step = "export" ->
                 LET output_base_name == Strip(output_name)
                     expected_mkv == Join(work_dir, MkvName(output_base_name))
                 IN  /\ IF Exists(expected_mkv)
                        THEN /\ log' = Append(log, "SUCCESS")
                             /\ dialog' = "success"
                             /\ run' = [ran EXCEPT !.success = TRUE]
                        ELSE /\ log' = Append(log, "MKV_MISSING")
                             /\ dialog' = "export_failed"
                             /\ run' = ran
                     /\ btn_stop' = FALSE /\ btn_run' = TRUE
                     /\ current_step' = "None"
                     /\ qstate' = "NotRunning"
                     /\ UNCHANGED <<launch, proc, exitInfo>>
             [] OTHER ->
                 /\ btn_stop' = FALSE /\ qstate' = "NotRunning" /\ run' = ran
                 /\ Quiet
                 /\ UNCHANGED <<btn_run, log, current_step, launch, proc, exitInfo>>
    /\ UNCHANGED <<path_decode, path_export, input_file, output_name, config,
                   cfgFile, fs, work_dir, app>>

\* closeEvent, with the window at size sz: the size is put in the
\* configuration, which is saved. Closing the only window ends app.exec()
\* and the interpreter exits: the widgets and self.config are gone, the file
\* system and the operating system's process stay. Whether the QProcess object
\* is destroyed on the way out (which kills a running process) is up to the
\* runtime.
closeEvent(sz) ==
    /\ app = "open"
    /\ LET saved == [config EXCEPT !["window_width"] = JInt(sz[1]),
                                   !["window_height"] = JInt(sz[2])]
       IN  \E writeOk \in BOOLEAN : cfgFile' = save_config(saved, cfgFile, writeOk)
    /\ app' = "exited"
    /\ \E destroyed \in BOOLEAN :
          /\ proc' = IF destroyed /\ proc = "alive" THEN "dead" ELSE proc
          /\ exitInfo' = IF destroyed /\ proc = "alive" THEN Killed ELSE exitInfo
    /\ path_decode' = <<>> /\ path_export' = <<>>
    /\ input_file' = <<>> /\ output_name' = <<>>
    /\ config' = defaults
    /\ btn_run' = FALSE /\ btn_stop' = FALSE
    /\ log' = <<>> /\ current_step' = "None" /\ work_dir' = <<>>
    /\ qstate' = "NotRunning" /\ dialog' = "none"
    /\ UNCHANGED <<fs, launch, run>>

\* A session of the workflow GUI that has not begun: the state the workflow
\* variables have in the specifications of the other tools.
WfIdle ==
    /\ cfgFile = NoFile /\ config = defaults /\ fs = StaticFiles
    /\ path_decode = <<>> /\ path_export = <<>>
    /\ input_file = <<>> /\ output_name = <<>>
    /\ btn_run = TRUE /\ btn_stop = FALSE /\ log = <<>>
    /\ current_step = "None" /\ work_dir = <<>> /\ qstate = "NotRunning"
    /\ launch = NoLaunch /\ proc = "none" /\ exitInfo = NoExit
    /\ dialog = "none" /\ app = "open" /\ run = NoRun

\* ------------------------------------------- the signal monitor (cxcheck)
\* Devices found by detect_cxadc_devices, one DeviceMonitorWorker each.
MaxWorkers == 2
Workers == 0..(MaxWorkers - 1)

SYNC_THRESHOLD == 60

VARIABLES
    is_running,   \* worker.is_running
    process,      \* worker.process: "None" or "Popen" (the handle)
    ffproc,       \* the worker's ffmpeg: "none", "alive", "killed", "dead"
    wpc,          \* where the worker's thread is in run()
    sample,       \* the last stats_update the worker emitted, or NoSample
    uipc,         \* where the UI thread is: "loop", closeEvent's steps, "exited"
    uiw,          \* the worker closeEvent is stopping
    termSent,     \* terminate requests that reached the worker's ffmpeg
    killSent,     \* kill requests that reached the worker's ffmpeg
    done,         \* stop_process calls completed since the handle was recorded
    popenFailed   \* the worker's Popen raised

monVars == <<is_running, process, ffproc, wpc, sample, uipc, uiw, termSent,
             killSent, done, popenFailed>>

\* ---- the line monitor: lines 96-106 of DeviceMonitorWorker.run
\* A line of ffmpeg's output is a sequence of tokens: Marker stands for the
\* text "lavfi.signalstats.YMIN", EQ for "=", a digit or DOT for itself, and
\* any other token for text the pattern's character class does not match.
Marker == "lavfi.signalstats.YMIN"
EQ == "="
DigitChars == {"0", "1", "2", "3", "4", "5", "6", "7", "8", "9"}
DigitVal(c) == CHOOSE n \in 0..9 : <<"0", "1", "2", "3", "4", "5", "6", "7", "8", "9">>[n + 1] = c

\* The character class [0-9\.]
IsNumChar(c) == c \in DigitChars \cup {DOT}

\* `"lavfi.signalstats.YMIN" not in line` is FALSE
HasMarker(line) == \E i \in 1..Len(line) : line[i] = Marker

RECURSIVE RunEnd(_, _)
\* The last index of the run of [0-9\.] characters that starts at i.
RunEnd(line, i) == IF i < Len(line) /\ IsNumChar(line[i + 1])
                   THEN RunEnd(line, i + 1) ELSE i

\* pattern.search(line).group(1) for r'lavfi\.signalstats\.YMIN=([0-9\.]+)':
\* the leftmost match, its group as long as it can be; <<>> for no match.
pattern_search(line) ==
    LET M == {i \in 1..Len(line) :
                 /\ i + 2 <= Len(line)
                 /\ line[i] = Marker /\ line[i + 1] = EQ
                 /\ IsNumChar(line[i + 2])}
    IN  IF M = {} THEN <<>>
        ELSE LET i == CHOOSE k \in M : \A j \in M : k <= j
             IN  SubSeq(line, i + 2, RunEnd(line, i + 2))

RECURSIVE IntVal(_)
\* The number a sequence of digits denotes.
IntVal(ds) == IF ds = <<>> THEN 0
              ELSE IntVal(SubSeq(ds, 1, Len(ds) - 1)) * 10 + DigitVal(ds[Len(ds)])

RECURSIVE Pow10(_)
Pow10(n) == IF n = 0 THEN 1 ELSE 10 * Pow10(n - 1)

\* float(text) raises ValueError: no digit, or more than one dot.
FloatError(text) ==
    \/ Cardinality({i \in 1..Len(text) : text[i] = DOT}) > 1
    \/ ~\E i \in 1..Len(text) : text[i] \in DigitChars

\* float(text) for a text of digits and at most one dot, as the fraction
\* num / den it denotes.
Float(text) ==
    LET d == IF RFind(text, DOT) = 0 THEN Len(text) + 1 ELSE RFind(text, DOT)
        int == SubSeq(text, 1, d - 1)
        frac == SubSeq(text, d + 1, Len(text))
    IN  [num |-> IntVal(int \o frac), den |-> Pow10(Len(frac))]

\* A ymin <= threshold comparison in place of <.
HasSignal_inclusive(ymin) == ymin.num <= SYNC_THRESHOLD * ymin.den

\* has_signal = ymin < SYNC_THRESHOLD
HasSignal(ymin) == ymin.num < SYNC_THRESHOLD * ymin.den

NoSample == [device_id |-> -1, ymin |-> [num |-> 0, den |-> 1], has_signal |-> FALSE]

\* The body of the loop for one line: the stats_update it emits, NoSample
\* when the line is skipped or its number dropped.
ProcessLine(device_id, line) ==
    IF ~HasMarker(line) THEN NoSample
    ELSE LET group == pattern_search(line) IN
         IF group = <<>> THEN NoSample
         ELSE IF FloatError(group) THEN NoSample
         ELSE [device_id |-> device_id, ymin |-> Float(group),
               has_signal |-> HasSignal(Float(group))]

\* The lines the monitored ffmpeg processes print.
MonLines == {<<"frame">>, <<Marker, EQ, "5", "9", DOT, "9">>, <<Marker, EQ, "6", "0">>}

\* ---- DeviceMonitorWorker.stop_process, one statement at a time
\* p is the place of the calling thread, q its next place:
\*   s1 is_running = False      s2 if self.process:
\*   s3 self.process.terminate()  s4 self.process.wait(timeout=1)
\*   s5 self.process.kill() (the except branch)   s6 self.process = None
\*   ret the call returned      raised an exception left the call
\* Every self.process reads the attribute anew: when the other thread has set
\* it to None meanwhile the statement raises AttributeError, which the bare
\* except clauses catch. Popen.terminate and Popen.kill poll the process and
\* send no signal to one that has exited.
StopPcs == {"s1", "s2", "s3", "s4", "s5", "s6"}

Bump(f, w) == [f EXCEPT ![w] = @ + 1]

\* Line 123, self.process = None, left out.
ClearHandle_missing(w) == process

\* Line 123: self.process = None
ClearHandle(w) == [process EXCEPT ![w] = "None"]

StopStep(w, p, q) ==
    CASE p = "s1" ->
           /\ is_running' = [is_running EXCEPT ![w] = FALSE]
           /\ q = "s2"
           /\ UNCHANGED <<process, ffproc, termSent, killSent, done>>
      [] p = "s2" ->
           /\ q = IF process[w] = "None" THEN "ret" ELSE "s3"
           /\ done' = IF process[w] = "None" /\ done[w] < 2 THEN Bump(done, w) ELSE done
           /\ UNCHANGED <<is_running, process, ffproc, termSent, killSent>>
      [] p = "s3" ->
           /\ q = IF process[w] = "None" THEN "s5" ELSE "s4"
           /\ termSent' = IF process[w] # "None" /\ ffproc[w] \in {"alive", "killed"}
                           THEN Bump(termSent, w) ELSE termSent
           /\ UNCHANGED <<is_running, process, ffproc, killSent, done>>
      [] p = "s4" ->
           /\ \/ process[w] = "None" /\ q = "s5"
              \/ process[w] # "None" /\ ffproc[w] = "dead" /\ q = "s6"
              \/ process[w] # "None" /\ ffproc[w] \in {"alive", "killed"} /\ q = "s5"
           /\ UNCHANGED <<is_running, process, ffproc, termSent, killSent, done>>
      [] p = "s5" ->
           /\ q = "s6"
           /\ killSent' = IF process[w] # "None" /\ ffproc[w] \in {"alive", "killed"}
                           THEN Bump(killSent, w) ELSE killSent
           /\ ffproc' = IF process[w] # "None" /\ ffproc[w] = "alive"
                         THEN [ffproc EXCEPT ![w] = "killed"] ELSE ffproc
           /\ UNCHANGED <<is_running, process, termSent, done>>
      [] p = "s6" ->
           /\ q = "ret"
           /\ process' = ClearHandle(w)
           /\ done' = IF done[w] < 2 THEN Bump(done, w) ELSE done
           /\ UNCHANGED <<is_running, ffproc, termSent, killSent>>
      [] OTHER -> FALSE


\* ---- DeviceMonitorWorker.run, the worker's thread
\* Lines 81-90: Popen spawns ffmpeg, or raises (ffmpeg missing, the system
\* refuses); the exception is swallowed and run() goes to its finally clause.
WorkerSpawn(w) ==
    /\ wpc[w] = "spawn"
    /\ \E ok \in BOOLEAN :
          IF ok
          THEN /\ ffproc' = [ffproc EXCEPT ![w] = "alive"]
               /\ wpc' = [wpc EXCEPT ![w] = "record"]
               /\ UNCHANGED popenFailed
          ELSE /\ popenFailed' = [popenFailed EXCEPT ![w] = TRUE]
               /\ wpc' = [wpc EXCEPT ![w] = "s1"]
               /\ UNCHANGED ffproc
    /\ UNCHANGED <<is_running, process, sample, uipc, uiw, termSent, killSent, done>>

\* Line 84: the handle Popen returned is stored in self.process.
WorkerRecord(w) ==
    /\ wpc[w] = "record"
    /\ process' = [process EXCEPT ![w] = "Popen"]
    /\ done' = [done EXCEPT ![w] = 0]
    /\ wpc' = [wpc EXCEPT ![w] = "read"]
    /\ UNCHANGED <<is_running, ffproc, sample, uipc, uiw, termSent, killSent,
                   popenFailed>>

\* Lines 92-106: ffmpeg printed a line and the loop takes it.
ReadLine(w, line) ==
    /\ wpc[w] = "read" /\ ffproc[w] = "alive"
    /\ IF ~is_running[w]
       THEN /\ wpc' = [wpc EXCEPT ![w] = "s1"]
            /\ UNCHANGED sample
       ELSE /\ ProcessLine(w, line) # NoSample
            /\ sample' = [sample EXCEPT ![w] = ProcessLine(w, line)]
            /\ UNCHANGED wpc
    /\ UNCHANGED <<is_running, process, ffproc, uipc, uiw, termSent, killSent,
                   done, popenFailed>>

\* Line 92: the stream ended, ffmpeg has exited.
ReadEOF(w) ==
    /\ wpc[w] = "read" /\ ffproc[w] = "dead"
    /\ wpc' = [wpc EXCEPT ![w] = "s1"]
    /\ UNCHANGED <<is_running, process, ffproc, sample, uipc, uiw, termSent,
                   killSent, done, popenFailed>>

\* Lines 109-110: stop_process in the finally clause, then the thread ends.
WorkerStop(w) ==
    /\ wpc[w] \in StopPcs
    /\ \E q \in StopPcs \cup {"ret"} :
          /\ StopStep(w, wpc[w], q)
          /\ wpc' = [wpc EXCEPT ![w] = IF q = "ret" THEN "done" ELSE q]
    /\ UNCHANGED <<sample, uipc, uiw, popenFailed>>

\* ffmpeg exits, by itself or because it honours a terminate request.
FfmpegExits(w) ==
    /\ ffproc[w] = "alive"
    /\ ffproc' = [ffproc EXCEPT ![w] = "dead"]
    /\ UNCHANGED <<is_running, process, wpc, sample, uipc, uiw, termSent,
                   killSent, done, popenFailed>>

\* A killed ffmpeg dies.
KilledDies(w) ==
    /\ ffproc[w] = "killed"
    /\ ffproc' = [ffproc EXCEPT ![w] = "dead"]
    /\ UNCHANGED <<is_running, process, wpc, sample, uipc, uiw, termSent,
                   killSent, done, popenFailed>>

\* ---- MainWindow.closeEvent, on the UI thread
\* The window is closed: closeEvent calls stop() on the first worker.
CloseMonitor ==
    /\ uipc = "loop"
    /\ uipc' = "s1" /\ uiw' = 0
    /\ UNCHANGED <<is_running, process, ffproc, wpc, sample, termSent, killSent,
                   done, popenFailed>>

\* DeviceMonitorWorker.stop, lines 126-127: is_running = False, stop_process().
UiStop ==
    /\ uipc \in StopPcs
    /\ \E q \in StopPcs \cup {"ret"} :
          /\ StopStep(uiw, uipc, q)
          /\ uipc' = IF q = "ret" THEN "join" ELSE q
    /\ UNCHANGED <<wpc, sample, uiw, popenFailed>>

\* DeviceMonitorWorker.stop, lines 128-129: quit() and wait() until the
\* worker's thread has ended; then the next worker, or event.accept().
UiJoin ==
    /\ uipc = "join" /\ wpc[uiw] = "done"
    /\ IF uiw + 1 < MaxWorkers
       THEN uiw' = uiw + 1 /\ uipc' = "s1"
       ELSE uiw' = uiw /\ uipc' = "exited"
    /\ UNCHANGED <<is_running, process, ffproc, wpc, sample, termSent, killSent,
                   done, popenFailed>>

\* The monitor before MainWindow is shown: every worker's thread was started.
MonStart ==
    /\ is_running = [w \in Workers |-> TRUE]
    /\ process = [w \in Workers |-> "None"]
    /\ ffproc = [w \in Workers |-> "none"]
    /\ wpc = [w \in Workers |-> "spawn"]
    /\ sample = [w \in Workers |-> NoSample]
    /\ uipc = "loop" /\ uiw = 0
    /\ termSent = [w \in Workers |-> 0]
    /\ killSent = [w \in Workers |-> 0]
    /\ done = [w \in Workers |-> 0]
    /\ popenFailed = [w \in Workers |-> FALSE]

\* ------------------------------------------- functions checked on inputs
VARIABLES
    input,    \* the argument drawn for the function under check
    output    \* its result, once applied

Idle == [state |-> "idle"]
Pending == [state |-> "pending"]
Result(v) == [state |-> "done", value |-> v]

NoInput == input = <<>> /\ output = Idle

vars == <<wfVars, monVars, input, output>>

\* Each tool leaves the other's variables alone.
WfSame == UNCHANGED <<wfVars, input, output>>
MonSame == UNCHANGED <<monVars, input, output>>

\* ------------------------------------------------- the workflow GUI: Spec
WfInit == Init /\ MonStart /\ NoInput

Next ==
    \/ \E t \in DecodeTexts : EditDecode(t) /\ MonSame
    \/ \E t \in ExportTexts : EditExport(t) /\ MonSame
    \/ \E t \in InputTexts : EditInput(t) /\ MonSame
    \/ \E t \in OutputTexts : EditOutput(t) /\ MonSame
    \/ browse_input_file(InputPath) /\ MonSame
    \/ start_process /\ MonSame
    \/ kill_process /\ MonSame
    \/ handle_output /\ MonSame
    \/ process_finished /\ MonSame
    \/ ProcStarted /\ MonSame
    \/ ProcFailedToStart /\ MonSame
    \/ ProcWrites /\ MonSame
    \/ \E o \in ExitOutcomes : ProcExit(o) /\ MonSame
    \/ \E sz \in WinSizes : closeEvent(sz) /\ MonSame

Spec == WfInit /\ [][Next]_vars

\* ------------------------------------------- the signal monitor: SpecMon
InitMon == WfIdle /\ MonStart /\ NoInput

NextMon ==
    \/ \E w \in Workers : WorkerSpawn(w) /\ WfSame
    \/ \E w \in Workers : WorkerRecord(w) /\ WfSame
    \/ \E w \in Workers : \E line \in MonLines : ReadLine(w, line) /\ WfSame
    \/ \E w \in Workers : ReadEOF(w) /\ WfSame
    \/ \E w \in Workers : WorkerStop(w) /\ WfSame
    \/ \E w \in Workers : FfmpegExits(w) /\ WfSame
    \/ \E w \in Workers : KilledDies(w) /\ WfSame
    \/ CloseMonitor /\ WfSame
    \/ UiStop /\ WfSame
    \/ UiJoin /\ WfSame

SpecMon == InitMon /\ [][NextMon]_vars

\* The threads are scheduled, a wait with a timeout ends, and a killed process
\* dies. Nothing makes ffmpeg print a line or exit by itself, and nothing
\* makes the user close the window.
FairMon ==
    /\ WF_vars(UiStop /\ WfSame)
    /\ WF_vars(UiJoin /\ WfSame)
    /\ \A w \in Workers :
          /\ WF_vars(WorkerSpawn(w) /\ WfSame)
          /\ WF_vars(WorkerRecord(w) /\ WfSame)
          /\ WF_vars(ReadEOF(w) /\ WfSame)
          /\ WF_vars(WorkerStop(w) /\ WfSame)
          /\ WF_vars(KilledDies(w) /\ WfSame)

SpecMonFair == InitMon /\ [][NextMon]_vars /\ FairMon

\* ------------------------------------- the line monitor on lines: SpecLine
MaxBody == 4

RECURSIVE SeqsUpTo(_, _)
\* The sequences over S of length 1..n.
SeqsUpTo(S, n) ==
    IF n = 0 THEN {}
    ELSE LET shorter == SeqsUpTo(S, n - 1)
         IN  {<<c>> : c \in S} \cup shorter \cup {t \o <<c>> : t \in shorter, c \in S}

\* Lines of ffmpeg's output: text, the marker, "=", and after it up to
\* MaxBody characters of the pattern's class, then the end of the line or text.
LineInputs ==
    {<<"frame">>, <<Marker>>, <<Marker, EQ>>, <<Marker, "x", EQ, "5">>}
    \cup {pre \o <<Marker, EQ>> \o body \o post :
             pre \in {<<>>, <<"x">>},
             body \in SeqsUpTo({"0", "5", "6", "9", DOT}, MaxBody),
             post \in {<<>>, <<"x">>}}

InitLine == WfIdle /\ MonStart /\ input \in LineInputs /\ output = Pending

\* The loop of DeviceMonitorWorker.run takes the line.
ReadInputLine ==
    /\ output = Pending
    /\ output' = Result(ProcessLine(0, input))
    /\ UNCHANGED <<wfVars, monVars, input>>

NextLine == ReadInputLine

SpecLine == InitLine /\ [][NextLine]_vars

\* --------------------------------------- load_config on files: SpecCfg
CfgKeys == DefaultKeys \cup {"theme"}
CfgValues == {JStr(<<"x">>), JInt(1024)}

\* The configuration files load_config is applied to: every state of the
\* file, and JSON objects over any of the keys.
CfgInputs ==
    {NoFile, Unreadable, BadJson, Undecodable}
    \cup {JsonFile(j) : j \in {JNull, JInt(1), JList(<<>>), JStr(<<"decode_path">>)}}
    \cup {JsonFile(JObj(o)) : o \in UNION {[D -> CfgValues] : D \in SUBSET CfgKeys}}

InitCfg == WfIdle /\ MonStart /\ input \in CfgInputs /\ output = Pending

\* ConfigManager.load_config is called on the file.
LoadInputFile ==
    /\ output = Pending
    /\ output' = Result(load_config(input))
    /\ UNCHANGED <<wfVars, monVars, input>>

NextCfg == LoadInputFile

SpecCfg == InitCfg /\ [][NextCfg]_vars

\* ------------------------------ detect_cxadc_devices on probes: SpecProbe
MaxDevices == 3

\* A text is the sequence of its characters.
UpperChars == <<"A", "B", "C", "D", "E", "F", "G", "H", "I", "J", "K", "L", "M",
                "N", "O", "P", "Q", "R", "S", "T", "U", "V", "W", "X", "Y", "Z">>
LowerChars == <<"a", "b", "c", "d", "e", "f", "g", "h", "i", "j", "k", "l", "m",
                "n", "o", "p", "q", "r", "s", "t", "u", "v", "w", "x", "y", "z">>

\* str.lower()
LowerChar(c) ==
    IF \E i \in 1..26 : UpperChars[i] = c
    THEN LowerChars[CHOOSE i \in 1..26 : UpperChars[i] = c]
    ELSE c
LowerText(t) == [i \in 1..Len(t) |-> LowerChar(t[i])]

\* sub in text
Contains(text, sub) ==
    \E i \in 0..(Len(text) - Len(sub)) : SubSeq(text, i + 1, i + Len(sub)) = sub

\* "no such file"
NoSuchFile == <<"n", "o", " ", "s", "u", "c", "h", " ", "f", "i", "l", "e">>

\* What ffmpeg writes to stderr for a device path.
ProbeTexts ==
    { <<>>,
      <<"N", "o", " ", "s", "u", "c", "h", " ", "f", "i", "l", "e">>,
      <<"N", "O", " ", "S", "U", "C", "H", " ", "F", "I", "L", "E">>,
      <<":", " ", "n", "o", " ", "s", "u", "c", "h", " ", "f", "i", "l", "e", " ", "o", "r">>,
      <<"n", "o", " ", "s", "u", "c", "h">>,
      <<"n", "o", " ", " ", "s", "u", "c", "h", " ", "f", "i", "l", "e">>,
      <<"I", "/", "O", " ", "e", "r", "r", "o", "r">> }

\* One diagnostic invocation: Popen or the read raises, or stderr was read.
Raised == [kind |-> "raised"]
Stderr(t) == [kind |-> "stderr", text |-> t]
ProbeOutcomes == {Raised} \cup {Stderr(t) : t \in ProbeTexts}

\* Line 44 with the case of the text kept.
ReadStderr_case_kept(o) == o.text

\* Line 44: proc.stderr.read().lower()
ReadStderr(o) == LowerText(o.text)

RECURSIVE DetectFrom(_, _, _, _)
\* The loop of detect_cxadc_devices from index dev on.
DetectFrom(dev, max_devices, probe, detected) ==
    IF dev >= max_devices THEN detected
    ELSE DetectFrom(dev + 1, max_devices, probe,
            IF probe[dev] = Raised THEN detected
            ELSE IF ~Contains(ReadStderr(probe[dev]), NoSuchFile)
                 THEN Append(detected, dev)
                 ELSE detected)

\* detect_cxadc_devices(max_devices), probe[dev] being what the invocation for
\* index dev does.
detect_cxadc_devices(max_devices, probe) == DetectFrom(0, max_devices, probe, <<>>)

ProbeInputs ==
    UNION {{[max |-> n, probe |-> f] : f \in [0..(n - 1) -> ProbeOutcomes]} :
              n \in 0..MaxDevices}

InitProbe == WfIdle /\ MonStart /\ input \in ProbeInputs /\ output = Pending

\* MainWindow.init_devices calls detect_cxadc_devices.
DetectDevices ==
    /\ output = Pending
    /\ output' = Result(detect_cxadc_devices(input.max, input.probe))
    /\ UNCHANGED <<wfVars, monVars, input>>

NextProbe == DetectDevices

SpecProbe == InitProbe /\ [][NextProbe]_vars

\* ---------------------------------------------- properties: the workflow GUI

\* C1: the export process is started only after the decode process of the same
\* run was seen to end with a normal exit and exit code 0; once decode was seen
\* to end otherwise, export is not started and no process is starting or
\* running for the rest of the run.
C1_ExportOnlyAfterDecodeOk ==
    /\ (run.export # "none" \/ launch.stage = "export") => run.decode = "ok"
    /\ run.decode = "bad" =>
          /\ run.export = "none" /\ launch.stage = "decode"
          /\ qstate = "NotRunning" /\ proc # "alive"

\* The export process runs, after a decode that ended with exit code 0.
C1_Witness == launch.stage = "export" /\ proc = "alive" /\ run.decode = "ok"

\* C2: success is reported for a run if and only if its decode process and its
\* export process both ended with exit code 0 and the run's final artifact,
\* <work_dir>/<base>.tbcexported.mkv for the base name the run was started
\* with, existed when export was seen to end.
C2_SuccessIffBothOkAndArtifact ==
    run.success <=> (run.decode = "ok" /\ run.export = "ok" /\ run.mkv)

\* The claim's precondition of C3: one of the four checks of a run request fails.
PreconditionViolated ==
    \/ ~Exists(Strip(path_decode))
    \/ ~Exists(Strip(path_export))
    \/ ~Exists(Strip(input_file))
    \/ Strip(output_name) = <<>>

\* C3: a run request whose preconditions are violated fails (a message box
\* says so) and changes nothing: no process is started, and the current step,
\* the working directory, the configuration in memory and on disk, the log and
\* the two buttons are as before.
C3_RejectedRunChangesNothing ==
    [][(start_process /\ PreconditionViolated) =>
          /\ dialog' # "none"
          /\ UNCHANGED <<qstate, launch, proc, exitInfo, current_step, work_dir,
                         config, cfgFile, log, btn_run, btn_stop, run>>]_vars

\* A run request was refused for an output name of white space only.
C3_Witness == dialog = "no_output_name" /\ output_name = <<SP>>

\* C4: after a STOP click made while a stage was active (its process starting
\* or running, its end not yet seen), that stage's process is not alive, no
\* later stage is started and success is not reported for the run.
C4_StopEndsRunAsFailed ==
    run.stopped # "None" =>
        /\ ~run.success
        /\ run.stopped = "decode" => run.export = "none"
        /\ launch.stage = run.stopped => proc # "alive"

\* C5: while the window is open, a failed launch of a stage's executable has
\* been shown to the user, in a message box or as an error in the log.
C5_LaunchFailureSurfaced ==
    (app = "open" /\ run.launchFailed) =>
        \/ dialog # "none"
        \/ \E i \in 1..Len(log) : log[i] \in {"FAILED", "TBC_MISSING", "MKV_MISSING"}

\* C6: once the application has exited, the process it supervised is not alive.
C6_NoProcessOutlivesApp == app = "exited" => proc # "alive"

\* A step of closeEvent, and a step of start_process that accepts the request.
CloseStep == app = "open" /\ app' = "exited"
AcceptedRunStep == run'.n = run.n + 1

\* C13, as stated: the configuration file changes in closeEvent only.
C13_FileWrittenOnCloseOnly ==
    [][cfgFile' # cfgFile => CloseStep]_vars

\* C13, amended: the configuration file changes only in closeEvent and in a
\* start_process that accepts the run request, which writes the record it has
\* just updated in memory; the record in memory changes in these two only.
C13_FileWrittenOnRunOrClose ==
    [][/\ cfgFile' # cfgFile =>
             \/ CloseStep
             \/ AcceptedRunStep /\ cfgFile' = JsonFile(JObj(config'))
       /\ config' # config => (CloseStep \/ AcceptedRunStep)]_vars

\* A run request was accepted and wrote the file while the window is open.
C13_Witness ==
    /\ app = "open" /\ run.n = 1 /\ run.decode = "none"
    /\ cfgFile = JsonFile(JObj(config))
    /\ config["last_input_file"] = JStr(InputPath)
    /\ cfgFile \notin InitCfgFiles

\* C14: while the window is open, Run is enabled exactly when the QProcess is
\* neither starting nor running, and Stop exactly when it is.
C14_ButtonsFollowProcess ==
    app = "open" =>
        /\ btn_run <=> qstate = "NotRunning"
        /\ btn_stop <=> qstate # "NotRunning"

\* C15: the export process of a run is given <base>.tbc and
\* <base>.tbcexported.mkv for the base name the run's decode was started with,
\* and once export was seen to end with exit code 0 success is reported
\* exactly when that base name's final artifact existed.
C15_BaseNameFixedForRun ==
    /\ launch.stage = "export" =>
          launch.args = <<TbcName(run.base), MkvName(run.base)>>
    /\ run.export = "ok" => (run.success <=> run.mkv)

\* The step in which decode is seen to end with exit code 0.
DecodeOkStep == run.decode # "ok" /\ run'.decode = "ok"

\* C16: when decode is seen to end with exit code 0 and <work_dir>/<base>.tbc
\* for the run's base name does not exist, export is not started and Run is
\* enabled again; and a run whose export was not started then has no export
\* process later and is never reported as a success.
C16_ExportOnlyWithTbc ==
    [][/\ (DecodeOkStep /\ ~Exists(Join(work_dir, TbcName(run.base)))) =>
             /\ run'.export = "none" /\ launch'.stage # "export"
             /\ qstate' = "NotRunning" /\ btn_run'
       /\ (run'.decode = "ok" /\ run'.export = "none") =>
             /\ ~run'.success /\ launch'.stage # "export"]_vars

\* --------------------------------------------- properties: the signal monitor

\* C7: once the window is closed, closeEvent comes to its end: every
\* worker.stop() returns and the UI thread reaches event.accept().
C7_StopAlwaysCompletes == (uipc # "loop") ~> (uipc = "exited")

\* C8: once a call of stop_process has completed since the worker recorded its
\* process handle, no terminate or kill request reaches the process any more;
\* and none ever reaches a process that has exited.
C8_StopProcessIdempotent ==
    [][\A w \in Workers :
          ((done[w] >= 1 /\ done'[w] >= 1) \/ ffproc[w] = "dead") =>
              (termSent'[w] = termSent[w] /\ killSent'[w] = killSent[w])]_vars

\* Two calls of stop_process have completed on a worker whose process was sent
\* one terminate request.
C8_Witness ==
    \E w \in Workers : done[w] = 2 /\ termSent[w] = 1 /\ wpc[w] = "done"

\* C9: an emitted sample says "signal present" if and only if its YMIN is
\* strictly less than 60.
C9_SignalIffBelow60 ==
    (output.state = "done" /\ output.value # NoSample) =>
        (output.value.has_signal <=> output.value.ymin.num < 60 * output.value.ymin.den)

\* A sample with YMIN exactly 60 was emitted, as "no signal".
C9_Witness ==
    /\ output.state = "done" /\ output.value # NoSample
    /\ output.value.ymin.num = 60 * output.value.ymin.den
    /\ ~output.value.has_signal

\* --------------------------------------------- properties: the configuration

\* C10: load_config on a missing file returns exactly the defaults; on a file
\* that holds an object over a subset of the default keys it returns an object
\* over exactly the default keys, with the file's value for every key of the
\* file and the default value for every other key.
C10_LoadMergesDefaults ==
    output.state = "done" =>
        /\ input = NoFile => output.value = [ok |-> TRUE, value |-> JObj(defaults)]
        /\ (input.kind = "json" /\ input.data.t = "obj"
               /\ DOMAIN input.data.v \subseteq DefaultKeys) =>
              /\ output.value.ok
              /\ output.value.value.t = "obj"
              /\ DOMAIN output.value.value.v = DefaultKeys
              /\ \A k \in DefaultKeys :
                    output.value.value.v[k] =
                        IF k \in DOMAIN input.data.v THEN input.data.v[k]
                        ELSE defaults[k]

\* A file with two of the default keys, their values not the defaults, was
\* loaded.
C10_Witness ==
    /\ output.state = "done"
    /\ input = JsonFile(JObj([k \in {"decode_path", "window_width"} |->
                                 IF k = "decode_path" THEN JStr(<<"x">>) ELSE JInt(1024)]))
    /\ output.value.ok
    /\ output.value.value.v["window_width"] = JInt(1024)
    /\ output.value.value.v["window_height"] = JInt(DefaultHeight)

\* C11: load_config returns to its caller for every state of the file, and
\* what it returns is an object with every default key; for an absent,
\* unreadable or unparseable file it is the defaults.
C11_LoadNeverFails ==
    output.state = "done" =>
        /\ output.value.ok
        /\ output.value.value.t = "obj"
        /\ DefaultKeys \subseteq DOMAIN output.value.value.v
        /\ input.kind \in {"absent", "unreadable", "invalid", "undecodable"} =>
              output.value.value = JObj(defaults)

\* --------------------------------------------- properties: the device prober

====
